---- MODULE Spec2Model ----
(***************************************************************************)
(* Model of the two scripts of the repository:                             *)
(*   convert.py              adult.data (headerless)  ->  adult.csv        *)
(*   convert_csv_autoint.py  casts integer-like columns of a CSV to the    *)
(*                           nullable Int64 type, with a one-time backup   *)
(*                                                                         *)
(* A file is a sequence of rows, a row a sequence of field texts.  A field *)
(* text is a record: k is its lexical class, sp the number of blanks in    *)
(* front of it, s its characters when it is plain text, i and f the        *)
(* integer part and the fractional part (in units of 1e-9) when it is a    *)
(* numeral.  A cell of a DataFrame is a field text (a str object), NaN, or *)
(* a number.  Numerals are non-negative.                                   *)
(***************************************************************************)
EXTENDS Integers, Sequences, FiniteSets, TLC

VARIABLES fs, pc, in_path, out_path, df, df_proc, converted_cols, stdout, exit_code

vars == <<fs, pc, in_path, out_path, df, df_proc, converted_cols, stdout, exit_code>>

(* ------------------------------ bounds -------------------------------- *)

\* the largest number of data rows of an input file
MaxRows == 2

(* --------------------------- field texts ------------------------------ *)

Cell(k, sp, s, i, f) == [k |-> k, sp |-> sp, s |-> s, i |-> i, f |-> f]

\* the empty field
Empty == Cell("empty", 0, "", 0, 0)
\* plain text such as Private or ?
Txt(s) == Cell("txt", 0, s, 0, 0)
\* an integer literal: digits only
IntLit(i) == Cell("int", 0, "", i, 0)
\* a decimal literal i.f, f in units of 1e-9 (2.5 is DecLit(2, 500000000))
DecLit(i, f) == Cell("dec", 0, "", i, f)
\* the token inf
InfLit == Cell("inf", 0, "", 0, 0)
\* the 20-digit integer literal 99999999999999999999 (beyond 64 bits)
HugeLit == Cell("huge", 0, "", 0, 0)
\* the same text with one blank in front of it
Lead(c) == [c EXCEPT !.sp = 1]

(* --------------------------- cell values ------------------------------ *)

\* float NaN (a missing cell)
NaN == Cell("nan", 0, "", 0, 0)
\* pandas.NA of the Int64 extension type
NA == Cell("NA", 0, "", 0, 0)
\* a float64 i + f * 1e-9
F64(i, f) == Cell("f64", 0, "", i, f)
\* float inf
InfVal == Cell("finf", 0, "", 0, 0)
\* the float 1e20: finite, beyond the int64 range
BigVal == Cell("fbig", 0, "", 0, 0)
\* an int64 / Int64 value
I64(i) == Cell("i64", 0, "", i, 0)

\* units of the fractional part in 1.0
FracOne == 1000000000
\* numpy.isclose(frac, 0.0): |frac| <= atol = 1e-8, in units of 1e-9
IsCloseAtol == 10

Range(seq) == {seq[n] : n \in DOMAIN seq}

(* ------------------------------ files --------------------------------- *)

exists(p) == p \in DOMAIN fs

\* the file system after (over)writing content at path p
WriteFile(p, content) ==
    [q \in DOMAIN fs \cup {p} |-> IF q = p THEN content ELSE fs[q]]

\* Path.with_suffix(suffix + '.bak')
BakPath(p) ==
    CASE p = "adult.csv" -> "adult.csv.bak"
      [] p = "out.csv" -> "out.csv.bak"

(* ------------------- convert_csv_autoint.py: reading ------------------ *)

\* skipinitialspace=True: blanks after the delimiter are dropped
SkipInitialSpace(c) == [c EXCEPT !.sp = 0]

\* dtype=str: a field stays a str, except the NA tokens (here the empty field)
ReadCellStr(c) ==
    IF SkipInitialSpace(c).k = "empty" THEN NaN ELSE SkipInitialSpace(c)

NRows(frame) == IF Len(frame.data) = 0 THEN 0 ELSE Len(frame.data[1])

\* pd.read_csv(in_path, skipinitialspace=True, dtype=str): row 1 is the header
read_csv_str(file) ==
    [columns |-> [j \in 1..Len(file[1]) |-> ReadCellStr(file[1][j]).s],
     data |-> [j \in 1..Len(file[1]) |->
                 [r \in 1..(Len(file) - 1) |-> ReadCellStr(file[r + 1][j])]]]

\* the text to_csv writes for one cell: a missing value as the empty field, a
\* number in its shortest form, a str object as it is
WriteCell(v) ==
    CASE v.k \in {"nan", "NA"} -> Empty
      [] v.k = "i64" -> IntLit(v.i)
      [] v.k = "f64" -> DecLit(v.i, v.f)
      [] v.k = "finf" -> InfLit
      [] OTHER -> v

\* to_csv without index=False: the index is written as a first, unnamed column
to_csv_with_index(frame) ==
    <<(<<Empty>> \o [j \in 1..Len(frame.columns) |-> Txt(frame.columns[j])])>> \o
    [r \in 1..NRows(frame) |->
        <<IntLit(r - 1)>> \o [j \in 1..Len(frame.columns) |-> WriteCell(frame.data[j][r])]]

\* DataFrame.to_csv(path, index=False): the header row, then one row per index
to_csv(frame) ==
    <<[j \in 1..Len(frame.columns) |-> Txt(frame.columns[j])]>> \o
    [r \in 1..NRows(frame) |-> [j \in 1..Len(frame.columns) |-> WriteCell(frame.data[j][r])]]

(* ------------------ convert_csv_autoint.py: coercion ------------------ *)

\* col.replace('?', np.nan)
ReplaceQ(col) == [n \in DOMAIN col |-> IF col[n] = Txt("?") THEN NaN ELSE col[n]]

\* pd.to_numeric(..., errors='coerce') of one object cell
ToNumericCell(v) ==
    CASE v.k = "int" -> F64(v.i, 0)
      [] v.k = "dec" -> F64(v.i, v.f)
      [] v.k = "inf" -> InfVal
      [] v.k = "huge" -> BigVal
      [] OTHER -> NaN

to_numeric(col) == [n \in DOMAIN col |-> ToNumericCell(col[n])]

dropna(series) == SelectSeq(series, LAMBDA v : v.k \notin {"nan", "NA"})

is_numeric_dtype(series) ==
    \A n \in DOMAIN series : series[n].k \in {"nan", "f64", "finf", "fbig", "i64"}

\* np.modf(x)[0]
Frac(v) == IF v.k = "f64" THEN v.f ELSE 0

\* is_integer_like answering False for a column without any value
is_integer_like_no_evidence(series) ==
    IF Len(series) = 0 THEN FALSE
    ELSE LET s == dropna(series) IN
         IF Len(s) = 0 THEN FALSE
         ELSE IF ~is_numeric_dtype(s) THEN FALSE
         ELSE \A n \in DOMAIN s : Frac(s[n]) <= IsCloseAtol

\* is_integer_like without the test of the fractional part
is_integer_like_no_frac(series) ==
    IF Len(series) = 0 THEN FALSE
    ELSE LET s == dropna(series) IN
         IF Len(s) = 0 THEN TRUE
         ELSE is_numeric_dtype(s)

is_integer_like(series) ==
    IF Len(series) = 0 THEN FALSE
    ELSE LET s == dropna(series) IN
         IF Len(s) = 0 THEN TRUE
         ELSE IF ~is_numeric_dtype(s) THEN FALSE
         ELSE \A n \in DOMAIN s : Frac(s[n]) <= IsCloseAtol

\* Series.round(0) of one value (ties to even)
Round0(v) ==
    IF v.k # "f64" THEN v
    ELSE IF 2 * v.f < FracOne THEN F64(v.i, 0)
    ELSE IF 2 * v.f > FracOne THEN F64(v.i + 1, 0)
    ELSE IF v.i % 2 = 0 THEN F64(v.i, 0) ELSE F64(v.i + 1, 0)

\* astype('Int64') raises TypeError (cannot safely cast) on these values
CastRaises(series) ==
    \E n \in DOMAIN series : Round0(series[n]).k \in {"finf", "fbig"}

\* Series.round(0).astype('Int64'), where it does not raise
RoundAsInt64(series) ==
    [n \in DOMAIN series |->
        IF series[n].k \in {"nan", "NA"} THEN NA ELSE I64(Round0(series[n]).i)]

\* what a call gives: a value, None, or an exception
Ret(tag, val) == [tag |-> tag, val |-> val]

safe_object_to_numeric_int64(col) ==
    LET coerced == to_numeric(ReplaceQ(col)) IN
    IF is_integer_like(coerced)
    THEN IF CastRaises(coerced) THEN Ret("raise", <<>>)
         ELSE Ret("value", RoundAsInt64(coerced))
    ELSE Ret("None", <<>>)

\* one turn of the loop of main over the columns
CoerceColumn(s) ==
    LET new_int == safe_object_to_numeric_int64(s) IN
    IF new_int.tag # "None" THEN new_int
    ELSE LET s_num == to_numeric(ReplaceQ(s)) IN
         IF is_numeric_dtype(s_num) /\ is_integer_like(s_num)
         THEN IF CastRaises(s_num) THEN Ret("raise", <<>>)
              ELSE Ret("value", RoundAsInt64(s_num))
         ELSE Ret("None", <<>>)

ColIdx(frame) == 1..Len(frame.columns)

\* the loop raises when its first raising column is reached
LoopRaises(frame) == \E j \in ColIdx(frame) : CoerceColumn(frame.data[j]).tag = "raise"

\* df_proc after the loop
LoopFrame(frame) ==
    [columns |-> frame.columns,
     data |-> [j \in ColIdx(frame) |->
                 IF CoerceColumn(frame.data[j]).tag = "value"
                 THEN CoerceColumn(frame.data[j]).val
                 ELSE frame.data[j]]]

\* converted_cols after the loop, in column order
LoopConverted(frame) ==
    LET idx == [j \in ColIdx(frame) |-> j]
        hit == SelectSeq(idx, LAMBDA j : CoerceColumn(frame.data[j]).tag = "value")
    IN [n \in DOMAIN hit |-> frame.columns[hit[n]]]

(* ------------------------------ convert.py ---------------------------- *)

\* the names convert.py assigns (the model keeps the first two of the fifteen)
ColumnNames == <<"age", "workclass">>

\* the dtype read_csv infers for one column of field texts
InferDtype(texts) ==
    IF \A n \in DOMAIN texts : texts[n].k = "int" THEN "int64"
    ELSE IF \A n \in DOMAIN texts : texts[n].k \in {"int", "dec"} \/ texts[n] = Empty
         THEN "float64"
    ELSE "object"

\* one cell of a column read with the inferred dtype
ReadCellAs(dtype, c) ==
    CASE dtype = "int64" -> I64(c.i)
      [] dtype = "float64" -> (IF c = Empty THEN NaN ELSE F64(c.i, c.f))
      [] OTHER -> (IF c = Empty THEN NaN ELSE c)

\* read_csv without header=None: the first row is taken as the header
read_csv_infer_header_row(file) ==
    LET texts(j) == [r \in 1..(Len(file) - 1) |-> file[r + 1][j]] IN
    [columns |-> [j \in 1..Len(file[1]) |-> j - 1],
     data |-> [j \in 1..Len(file[1]) |->
                 [r \in 1..(Len(file) - 1) |->
                     ReadCellAs(InferDtype(texts(j)), file[r + 1][j])]]]

\* pd.read_csv('adult.data', header=None): every row is data
read_csv_infer(file) ==
    LET texts(j) == [r \in 1..Len(file) |-> file[r][j]] IN
    [columns |-> [j \in 1..Len(file[1]) |-> j - 1],
     data |-> [j \in 1..Len(file[1]) |->
                 [r \in 1..Len(file) |-> ReadCellAs(InferDtype(texts(j)), file[r][j])]]]

(* ------------------------------- state -------------------------------- *)

EmptyFrame == [columns |-> <<>>, data |-> <<>>]

Header == [j \in 1..Len(ColumnNames) |-> Txt(ColumnNames[j])]

\* field texts of the first and of the second column of an input CSV:
\*   (empty)  ?  " ?"  "? "  Private  1  2.0  2.5  2.000000001  inf  99999999999999999999
CsvCells1 ==
    {Empty, Txt("?"), Lead(Txt("?")), Txt("? "), Txt("Private"),
     IntLit(1), DecLit(2, 0), DecLit(2, 500000000), DecLit(2, 1),
     InfLit, HugeLit}
CsvCells2 == {Lead(Txt("Private")), Lead(IntLit(1))}

\* field texts of the two columns of adult.data
DataCells1 == {Empty, IntLit(1), IntLit(2), DecLit(2, 500000000), Lead(Txt("?"))}
DataCells2 == {Lead(Txt("Private")), Lead(IntLit(1))}

RowsOf(cells1, cells2) ==
    UNION {[1..n -> {<<a, b>> : a \in cells1, b \in cells2}] : n \in 0..MaxRows}

\* a process that is not running: the next script can be started
Terminal == {"idle", "done", "exited", "crashed", "converted", "convert_failed"}

\* the command lines of convert_csv_autoint.py: <<input, output>>
Argv == {<<"adult.csv", "adult.csv">>, <<"adult.csv", "out.csv">>, <<"out.csv", "out.csv">>}

Init ==
    /\ fs \in {[p \in {"adult.data"} |-> rows] : rows \in RowsOf(DataCells1, DataCells2)}
          \cup {[p \in {"adult.csv"} |-> <<Header>> \o rows] : rows \in RowsOf(CsvCells1, CsvCells2)}
    /\ pc = "idle"
    /\ in_path = ""
    /\ out_path = ""
    /\ df = EmptyFrame
    /\ df_proc = EmptyFrame
    /\ converted_cols = <<>>
    /\ stdout = <<>>
    /\ exit_code = "none"

(* ----------------------- convert_csv_autoint.py main ------------------ *)

\* python convert_csv_autoint.py [input_csv] [output_csv]
Invoke(i, o) ==
    /\ pc \in Terminal
    /\ pc' = "check"
    /\ in_path' = i
    /\ out_path' = o
    /\ df' = EmptyFrame
    /\ df_proc' = EmptyFrame
    /\ converted_cols' = <<>>
    /\ stdout' = <<>>
    /\ exit_code' = "none"
    /\ UNCHANGED fs

\* the missing input reported, but with exit status 0
InputNotFoundExitZero ==
    /\ pc = "check"
    /\ ~exists(in_path)
    /\ stdout' = Append(stdout, <<"Input CSV not found:", in_path>>)
    /\ exit_code' = "0"
    /\ pc' = "exited"
    /\ UNCHANGED <<fs, in_path, out_path, df, df_proc, converted_cols>>

\* if not in_path.exists(): print, sys.exit(1)
InputNotFound ==
    /\ pc = "check"
    /\ ~exists(in_path)
    /\ stdout' = Append(stdout, <<"Input CSV not found:", in_path>>)
    /\ exit_code' = "1"
    /\ pc' = "exited"
    /\ UNCHANGED <<fs, in_path, out_path, df, df_proc, converted_cols>>

\* df = pd.read_csv(...); df_proc = df.copy()
Load ==
    /\ pc = "check"
    /\ exists(in_path)
    /\ df' = read_csv_str(fs[in_path])
    /\ df_proc' = df'
    /\ pc' = "loop"
    /\ UNCHANGED <<fs, in_path, out_path, converted_cols, stdout, exit_code>>

\* the loop over the columns runs to its end
LoopDone ==
    /\ pc = "loop"
    /\ ~LoopRaises(df_proc)
    /\ df_proc' = LoopFrame(df_proc)
    /\ converted_cols' = LoopConverted(df_proc)
    /\ pc' = "backup"
    /\ UNCHANGED <<fs, in_path, out_path, df, stdout, exit_code>>

\* astype('Int64') raises in the loop: nothing catches it, the process dies
LoopRaise ==
    /\ pc = "loop"
    /\ LoopRaises(df_proc)
    /\ stdout' = Append(stdout, <<"Traceback", "TypeError">>)
    /\ exit_code' = "1"
    /\ pc' = "crashed"
    /\ UNCHANGED <<fs, in_path, out_path, df, df_proc, converted_cols>>

\* the backup written by every run in place, whether one exists or not
BackupDueEveryRun == out_path = in_path

\* the backup is due: the input is overwritten and no backup exists
BackupDue == out_path = in_path /\ ~exists(BakPath(out_path))

\* if out_path == in_path: if not bak.exists(): df.to_csv(bak, index=False)
Backup ==
    /\ pc = "backup"
    /\ IF BackupDue
       THEN /\ fs' = WriteFile(BakPath(out_path), to_csv(df))
            /\ stdout' = Append(stdout, <<"Backup created:", BakPath(out_path)>>)
       ELSE UNCHANGED <<fs, stdout>>
    /\ pc' = "write"
    /\ UNCHANGED <<in_path, out_path, df, df_proc, converted_cols, exit_code>>

\* df_proc.to_csv(out_path, index=False) and the summary
Persist ==
    /\ pc = "write"
    /\ fs' = WriteFile(out_path, to_csv(df_proc))
    /\ stdout' = stdout \o
          <<IF converted_cols # <<>>
            THEN <<"Converted to Int64:">> \o converted_cols
            ELSE <<"No columns required conversion.">>,
            <<"Saved:", out_path>>>>
    /\ exit_code' = "0"
    /\ pc' = "done"
    /\ UNCHANGED <<in_path, out_path, df, df_proc, converted_cols>>

(* ------------------------------ convert.py ---------------------------- *)

\* read_csv or the assignment of the header raises
ConvertRaises ==
    IF ~exists("adult.data") THEN TRUE
    ELSE IF fs["adult.data"] = <<>> THEN TRUE
    ELSE Len(fs["adult.data"][1]) # Len(ColumnNames)

ConvertFail ==
    /\ pc \in Terminal
    /\ ConvertRaises
    /\ pc' = "convert_failed"
    /\ stdout' = <<<<"Traceback">>>>
    /\ exit_code' = "1"
    /\ in_path' = ""
    /\ out_path' = ""
    /\ df' = EmptyFrame
    /\ df_proc' = EmptyFrame
    /\ converted_cols' = <<>>
    /\ UNCHANGED fs

\* the table convert.py holds before it writes
ConvertFrame == [read_csv_infer(fs["adult.data"]) EXCEPT !.columns = ColumnNames]

Convert ==
    /\ pc \in Terminal
    /\ ~ConvertRaises
    /\ df' = ConvertFrame
    /\ fs' = WriteFile("adult.csv", to_csv(ConvertFrame))
    /\ pc' = "converted"
    /\ stdout' = <<>>
    /\ exit_code' = "0"
    /\ in_path' = ""
    /\ out_path' = ""
    /\ df_proc' = EmptyFrame
    /\ converted_cols' = <<>>

Next ==
    \/ \E a \in Argv : Invoke(a[1], a[2])
    \/ InputNotFound
    \/ Load
    \/ LoopDone
    \/ LoopRaise
    \/ Backup
    \/ Persist
    \/ ConvertFail
    \/ Convert

Spec == Init /\ [][Next]_vars

(* ============================== properties ============================ *)

(* ---------------------- vocabulary of the properties ------------------ *)

\* a missing marker of a loaded cell: the empty field, ? or a padded ?
IsMissing(v) == v = NaN \/ v = Txt("?") \/ v = Txt("? ")

\* the text parses as a number
ParsesAsNumber(v) == v.k \in {"int", "dec", "inf", "huge"}

\* the text is an integer literal: digits only
IsIntLiteral(v) == v.k \in {"int", "huge"}

Reported(j) == df.columns[j] \in Range(converted_cols)

\* the written column j holds, row by row, the cells that were loaded
WrittenAsLoaded(j) ==
    \A r \in 1..NRows(df) : ReadCellStr(fs[out_path][r + 1][j]) = df.data[j][r]

\* column j is Unchanged: not reported, kept in memory and written as loaded
Unchanged(j) == ~Reported(j) /\ df_proc.data[j] = df.data[j] /\ WrittenAsLoaded(j)

HasNonNumeric(col) == \E r \in DOMAIN col : ~IsMissing(col[r]) /\ ~ParsesAsNumber(col[r])

AllMissing(col) == Len(col) > 0 /\ \A r \in DOMAIN col : IsMissing(col[r])

AllIntLiterals(col) ==
    /\ \E r \in DOMAIN col : ~IsMissing(col[r])
    /\ \A r \in DOMAIN col : IsMissing(col[r]) \/ IsIntLiteral(col[r])

AllNumeric(col) == \A r \in DOMAIN col : IsMissing(col[r]) \/ ParsesAsNumber(col[r])

\* some cell has a non-zero fractional part
HasFraction(col) == \E r \in DOMAIN col : col[r].k = "dec" /\ col[r].f > 0

\* some cell has a fractional part beyond the tolerance of is_integer_like
HasFractionBeyondTol(col) == \E r \in DOMAIN col : col[r].k = "dec" /\ col[r].f > IsCloseAtol

\* this run created the backup
BackupCreated == <<"Backup created:", BakPath(out_path)>> \in Range(stdout)

(* C1: every column with a non-missing cell that does not parse as a number
   is Unchanged: not reported as converted, every written cell equals the
   cell that was loaded. *)
C1_NonNumericUnchanged ==
    pc = "done" =>
        \A j \in ColIdx(df) : HasNonNumeric(df.data[j]) => Unchanged(j)

(* C2: a column whose non-missing cells are all integer literals (at least
   one) never stops the run, and in the output it holds the whole-number
   values row by row, every missing cell still missing, and it is reported
   as converted. *)
C2_IntegerColumnConverted ==
    \A j \in ColIdx(df) :
        AllIntLiterals(df.data[j]) =>
            /\ pc = "crashed" => CoerceColumn(df.data[j]).tag # "raise"
            /\ pc = "done" =>
                /\ Reported(j)
                /\ \A r \in 1..NRows(df) :
                      /\ IsMissing(df.data[j][r]) =>
                            df_proc.data[j][r] = NA /\ fs[out_path][r + 1][j] = Empty
                      /\ ~IsMissing(df.data[j][r]) =>
                            /\ df_proc.data[j][r] = I64(df.data[j][r].i)
                            /\ fs[out_path][r + 1][j] = df.data[j][r]

(* C3 as stated: a non-empty column made of missing markers only is
   Unchanged and is not reported as converted. *)
C3_AllMissingUnchanged ==
    pc = "done" =>
        \A j \in ColIdx(df) : AllMissing(df.data[j]) => Unchanged(j)

(* C3 amended: a non-empty column made of missing markers only is
   integer-like: it is reported as converted, every cell of it becomes the
   missing value of the nullable integer type and is written as the empty
   field. *)
C3_AllMissingConverted ==
    pc = "done" =>
        \A j \in ColIdx(df) :
            AllMissing(df.data[j]) =>
                /\ Reported(j)
                /\ \A r \in 1..NRows(df) :
                      df_proc.data[j][r] = NA /\ fs[out_path][r + 1][j] = Empty

C3_Witness ==
    /\ pc = "done"
    /\ AllMissing(df.data[1])
    /\ Txt("?") \in Range(df.data[1])
    /\ NaN \in Range(df.data[1])

(* C4 as stated: a column whose non-missing cells all parse as numbers, one
   of them with a non-zero fractional part, is classified Float: recorded as
   changed, its non-missing cells rewritten as floating-point values, its
   missing cells missing. *)
C4_FractionalIsFloat ==
    pc = "done" =>
        \A j \in ColIdx(df) :
            (AllNumeric(df.data[j]) /\ HasFraction(df.data[j])) =>
                /\ Reported(j)
                /\ \A r \in 1..NRows(df) :
                      IF IsMissing(df.data[j][r])
                      THEN df_proc.data[j][r] = NaN
                      ELSE df_proc.data[j][r].k \in {"f64", "finf", "fbig"}

(* C4 amended: a column whose non-missing cells all parse as numbers, one of
   them with a fractional part beyond the tolerance 1e-8, is Unchanged: it
   is not reported as converted and every cell is kept and written as it was
   loaded. *)
C4_FractionalUnchanged ==
    pc = "done" =>
        \A j \in ColIdx(df) :
            (AllNumeric(df.data[j]) /\ HasFractionBeyondTol(df.data[j])) => Unchanged(j)

C4_Witness ==
    /\ pc = "done"
    /\ AllNumeric(df.data[1])
    /\ DecLit(2, 500000000) \in Range(df.data[1])
    /\ IntLit(1) \in Range(df.data[1])

(* C5: when a run in place has created the backup, and before it writes its
   output, the backup is byte-identical to the input file (the raw content,
   not a re-serialisation of the parsed table). *)
C5_BackupByteIdentical ==
    (pc = "write" /\ BackupCreated) => fs[BakPath(out_path)] = fs[in_path]

(* C6: once a backup file exists, no step of any run changes its content. *)
C6_BackupWrittenOnce ==
    [][\A a \in Argv :
          exists(BakPath(a[1])) =>
              /\ BakPath(a[1]) \in DOMAIN fs'
              /\ fs'[BakPath(a[1])] = fs[BakPath(a[1])]]_vars

\* a later run in place has ended: it found the backup and left it alone
C6_Witness ==
    /\ pc = "done"
    /\ out_path = in_path
    /\ exists(BakPath(out_path))
    /\ ~BackupCreated
    /\ fs[BakPath(out_path)] # to_csv(df)

(* C7 as stated: a second run on the output of a run reports no column as
   changed. *)
C7_SecondRunReportsNothing ==
    pc = "done" => LoopConverted(read_csv_str(fs[out_path])) = <<>>

(* C7 amended: a second run on the output of a run ends, writes a table
   equal to the table it read, and reports again exactly the columns the
   first run reported. *)
C7_SecondRunSameTable ==
    pc = "done" =>
        LET second == read_csv_str(fs[out_path]) IN
        /\ ~LoopRaises(second)
        /\ to_csv(LoopFrame(second)) = fs[out_path]
        /\ LoopConverted(second) = converted_cols

\* a first run that rewrote cells and reported a column
C7_Witness ==
    /\ pc = "done"
    /\ converted_cols # <<>>
    /\ to_csv(df_proc) # to_csv(df)

(* C8: when the input path does not exist the run reports it and ends with
   a non-zero exit status, and no file is created or modified. *)
C8_InputNotFoundNoWrite ==
    [][(pc = "check" /\ ~exists(in_path)) =>
          /\ fs' = fs
          /\ pc' = "exited"
          /\ exit_code' \notin {"none", "0"}
          /\ Len(stdout') = Len(stdout) + 1]_vars

C8_Witness ==
    /\ pc = "exited"
    /\ exit_code = "1"
    /\ ~exists(in_path)
    /\ ~exists(out_path)
    /\ ~exists(BakPath(out_path))
    /\ stdout = <<(<<"Input CSV not found:", in_path>>)>>

(* C9: no content of a cell makes the run fail: every run that has loaded a
   table ends with its output written. *)
C9_NoCellStopsTheRun ==
    /\ pc # "crashed"
    /\ pc = "loop" => ~LoopRaises(df_proc)

\* the text written for a loaded cell of a converted column
ConvertedCellText(v) == WriteCell(RoundAsInt64(to_numeric(ReplaceQ(<<v>>)))[1])

(* C10: the output has as many rows as the loaded table, every row as many
   fields as there are columns, cell i of an output column comes from cell i
   of the same input column, and a column that was not converted is
   unchanged; for the coercion and for the header assignment. *)
C10_RowsPreserved ==
    /\ pc = "done" =>
        /\ Len(fs[out_path]) = NRows(df) + 1
        /\ \A j \in ColIdx(df) : Len(df_proc.data[j]) = NRows(df)
        /\ \A r \in 1..NRows(df) :
              /\ Len(fs[out_path][r + 1]) = Len(df.columns)
              /\ \A j \in ColIdx(df) :
                    IF Reported(j)
                    THEN fs[out_path][r + 1][j] = ConvertedCellText(df.data[j][r])
                    ELSE /\ df_proc.data[j][r] = df.data[j][r]
                         /\ ReadCellStr(fs[out_path][r + 1][j]) = df.data[j][r]
    /\ pc = "converted" =>
        LET data == fs["adult.data"]
            out == fs["adult.csv"]
        IN /\ Len(out) = Len(data) + 1
           /\ out[1] = Header
           /\ \A r \in 1..Len(data) :
                 /\ Len(out[r + 1]) = Len(data[r])
                 /\ \A j \in 1..Len(data[r]) :
                       out[r + 1][j] =
                           WriteCell(ReadCellAs(
                               InferDtype([q \in 1..Len(data) |-> data[q][j]]), data[r][j]))

\* adult.csv made by convert.py, then coerced: two different rows, one column cast
C10_Witness ==
    /\ pc = "done"
    /\ exists("adult.data")
    /\ NRows(df) = 2
    /\ df.data[1][1] # df.data[1][2]
    /\ Len(converted_cols) = 1

====
